---------------------------- MODULE Spec2Model ----------------------------
(***************************************************************************)
(* Model of the player-evaluation scoring engine, src/player_scoring.py.   *)
(*                                                                         *)
(* Number representation.  The program computes with Python floats; the    *)
(* model computes the same formulas exactly, in fixed point:               *)
(*   - raw point quantities (game totals, avg, stdev, proj, implied_pts)   *)
(*     are integers in hundredths of a point ("cp");                       *)
(*   - a score produced by round(x, 1) is an integer in tenths;            *)
(*   - a score produced by round(x, 2) is an integer in hundredths;        *)
(*   - a quotient that the code never rounds is kept as numerator and      *)
(*     denominator.                                                        *)
(* round() is Python's round-half-to-even, applied to the exact quotient.  *)
(* A missing dict key is a sentinel: 0 for a number whose absence the code *)
(* treats as falsy or defaults to 0, Absent for a string.                  *)
(***************************************************************************)
EXTENDS Integers, Sequences, FiniteSets, TLC

VARIABLES
    players,        \* analyze_players: the pool, a sequence of player records
    game_details,   \* analyze_players: team code -> implied points (cp), NoEntry = no entry
    idx,            \* analyze_players: position of the for loop (1-based), Len+1 when exhausted
    results,        \* analyze_players: the results dict, player_id -> analysis
    log,            \* analyze_players: one entry per print() call, the position of the record it names
    pc,             \* "loop" while analyze_players iterates, "done" after return; "norm" / "normdone" for a normalize call
    nvalue,         \* normalize_score_robust: argument value
    ncohort,        \* normalize_score_robust: argument values_array
    nout,           \* normalize_score_robust: returned scores (of value, of the cohort's p5, of its p95), tenths
    call,           \* a call of one function on its own: the function's name and its arguments
    ret             \* what that call returned, NoRet before it returns

vars == <<players, game_details, idx, results, log, pc, nvalue, ncohort, nout, call, ret>>

----------------------------------------------------------------------------
(* Bounds of the model *)

\* longest cohort handed to normalize_score_robust on its own
MaxCohort == 4
\* largest cohort value (the values are 0..MaxVal)
MaxVal == 3

----------------------------------------------------------------------------
(* Arithmetic helpers *)

Min(a, b) == IF a <= b THEN a ELSE b

Max(a, b) == IF a >= b THEN a ELSE b

\* Python round(): the integer nearest to num/den, ties to the even one.
RoundDiv(num, den) ==
    LET n == IF den < 0 THEN -num ELSE num
        d == IF den < 0 THEN -den ELSE den
        q == n \div d
        r == n % d
    IN  IF 2 * r < d THEN q
        ELSE IF 2 * r > d THEN q + 1
        ELSE IF q % 2 = 0 THEN q ELSE q + 1

\* the sequences over S of length at most n
SeqsUpTo(S, n) == UNION {[1..k -> S] : k \in 0..n}

\* the values in the order the pool lists them
Sorted_as_listed(s) == s

\* numpy.quantile works on the sorted values
Sorted(s) == SortSeq(s, LAMBDA a, b : a < b)

\* denominator of the quantile levels: lo_q = 1/20, hi_q = 19/20
QDen == 20

LoQ == 1

HiQ == 19

\* np.quantile(values_array, qn/QDen), default linear interpolation, times QDen:
\* virtual index (n-1)*q, interpolate between the two neighbouring order statistics.
Quantile20(values_array, qn) ==
    LET s == Sorted(values_array)
        n == Len(s)
        h == (n - 1) * qn
        k == h \div QDen
        g == h % QDen
    IN  IF g = 0 THEN QDen * s[k + 1]
        ELSE QDen * s[k + 1] + g * (s[k + 2] - s[k + 1])

----------------------------------------------------------------------------
(* normalize_score_robust *)

\* neutral score 5.0, in tenths
Neutral == 50

\* min-max rescaling instead of percentile rescaling
normalize_q_minmax(v20, values_array) ==
    IF Len(values_array) < 3 THEN Neutral
    ELSE LET s == Sorted(values_array)
             lo == QDen * s[1]
             hi == QDen * s[Len(s)]
         IN  IF hi = lo THEN Neutral
             ELSE RoundDiv(100 * (Min(Max(v20, lo), hi) - lo), hi - lo)

\* the small-cohort guard off by one: len(values_array) < 2
normalize_q_short(v20, values_array) ==
    IF Len(values_array) < 2 THEN Neutral
    ELSE LET lo == Quantile20(values_array, LoQ)
             hi == Quantile20(values_array, HiQ)
         IN  IF hi = lo THEN Neutral
             ELSE RoundDiv(100 * (Min(Max(v20, lo), hi) - lo), hi - lo)

\* the winsorization step left out
normalize_q_noclip(v20, values_array) ==
    IF Len(values_array) < 3 THEN Neutral
    ELSE LET lo == Quantile20(values_array, LoQ)
             hi == Quantile20(values_array, HiQ)
         IN  IF hi = lo THEN Neutral
             ELSE RoundDiv(100 * (v20 - lo), hi - lo)

\* normalize_score_robust with the value given times QDen (so that a percentile
\* of the cohort, which is a multiple of 1/QDen, can be passed exactly); tenths.
normalize_q(v20, values_array) ==
    IF Len(values_array) < 3 THEN Neutral
    ELSE LET lo == Quantile20(values_array, LoQ)
             hi == Quantile20(values_array, HiQ)
         IN  IF hi = lo THEN Neutral
             ELSE RoundDiv(100 * (Min(Max(v20, lo), hi) - lo), hi - lo)

normalize_score_robust(value, values_array) == normalize_q(QDen * value, values_array)

----------------------------------------------------------------------------
(* Configuration tables.  Weights are in hundredths. *)

\* a dict key that the record does not have (string-valued fields)
Absent == "absent"

\* STARTER_WEIGHTS with the kicker's 'avg' weight typed as 0.20: that vector sums to 1.10
STARTER_WEIGHTS_unbalanced ==
    ("QB"   :> [implied_pts |-> 40, ewma_fp |-> 25, avg |-> 20, matchup |-> 10, proj |-> 5]) @@
    ("RB"   :> [implied_pts |-> 35, ewma_fp |-> 30, avg |-> 20, matchup |-> 10, proj |-> 5]) @@
    ("WR"   :> [ewma_fp |-> 35, avg |-> 25, implied_pts |-> 20, matchup |-> 15, proj |-> 5]) @@
    ("TE"   :> [avg |-> 40, ewma_fp |-> 25, implied_pts |-> 15, matchup |-> 15, proj |-> 5]) @@
    ("D/ST" :> [matchup |-> 40, opp_implied_low |-> 30, pressure |-> 15, home |-> 10, proj |-> 5]) @@
    ("K"    :> [implied_pts |-> 50, proj |-> 20, home |-> 20, avg |-> 20])

\* weights in hundredths
STARTER_WEIGHTS ==
    ("QB"   :> [implied_pts |-> 40, ewma_fp |-> 25, avg |-> 20, matchup |-> 10, proj |-> 5]) @@
    ("RB"   :> [implied_pts |-> 35, ewma_fp |-> 30, avg |-> 20, matchup |-> 10, proj |-> 5]) @@
    ("WR"   :> [ewma_fp |-> 35, avg |-> 25, implied_pts |-> 20, matchup |-> 15, proj |-> 5]) @@
    ("TE"   :> [avg |-> 40, ewma_fp |-> 25, implied_pts |-> 15, matchup |-> 15, proj |-> 5]) @@
    ("D/ST" :> [matchup |-> 40, opp_implied_low |-> 30, pressure |-> 15, home |-> 10, proj |-> 5]) @@
    ("K"    :> [implied_pts |-> 50, proj |-> 20, home |-> 20, avg |-> 10])

WAIVER_WEIGHTS == [upside |-> 30, trend |-> 25, implied_pts |-> 20, opportunity |-> 15, avg |-> 10]

ROS_WEIGHTS == [avg |-> 30, trend |-> 25, implied_pts |-> 20, consistency |-> 15, proj |-> 10]

\* tenths: 0.5, 0.3, 0.2
EWMA_WEIGHTS == <<5, 3, 2>>

\* INJURY_PENALTIES with the penalty of QUESTIONABLE doubled
INJURY_PENALTIES_harsh ==
    ("ACTIVE" :> 0) @@ ("QUESTIONABLE" :> -2) @@ ("DOUBTFUL" :> -3) @@
    ("OUT" :> -10) @@ ("IR" :> -10) @@ ("INJURY_RESERVE" :> -10)

\* INJURY_PENALTIES with half the penalty for the two reserve statuses
INJURY_PENALTIES_reserve_halved ==
    ("ACTIVE" :> 0) @@ ("QUESTIONABLE" :> -1) @@ ("DOUBTFUL" :> -3) @@
    ("OUT" :> -10) @@ ("IR" :> -5) @@ ("INJURY_RESERVE" :> -5)

\* whole points
INJURY_PENALTIES ==
    ("ACTIVE" :> 0) @@ ("QUESTIONABLE" :> -1) @@ ("DOUBTFUL" :> -3) @@
    ("OUT" :> -10) @@ ("IR" :> -10) @@ ("INJURY_RESERVE" :> -10)

\* a multiplier above 1 for HIGH confidence
CONFIDENCE_MULTIPLIERS_boosted == [HIGH |-> 11, MEDIUM |-> 9, LOW |-> 8]

\* tenths: 1.00, 0.90, 0.80
CONFIDENCE_MULTIPLIERS == [HIGH |-> 10, MEDIUM |-> 9, LOW |-> 8]

\* 0.5 ** (i / 6) for i = 0..5, in ten-thousandths
DecayWeights == <<10000, 8909, 7937, 7071, 6300, 5612>>

----------------------------------------------------------------------------
(* Metric calculators *)

RECURSIVE SumTo(_, _)
\* sum of f[1..n]
SumTo(f, n) == IF n = 0 THEN 0 ELSE f[n] + SumTo(f, n - 1)

\* the weighted sum divided by the sum of the weights that were used
EwmaSum_renormalized(last_n, weights) ==
    IF Len(last_n) = 0 \/ Len(weights) = 0 THEN 0
    ELSE LET m == Min(Len(last_n), Len(weights))
         IN  (10 * SumTo([i \in 1..m |-> last_n[i] * weights[i]], m)) \div SumTo(weights, m)

\* weighted_sum of calculate_ewma: cp games times weights in tenths, thousandths
EwmaSum(last_n, weights) ==
    IF Len(last_n) = 0 THEN 0
    ELSE LET m == Min(Len(last_n), Len(weights))
         IN  SumTo([i \in 1..m |-> last_n[i] * weights[i]], m)

\* round(weighted_sum, 2), cp: what the float rounding can return. A sum that
\* ends in exactly half a hundredth goes up or down with the binary value of
\* the float (round(10.05 * 0.5, 2) is 5.03, round(0.075 + 0.03, 2) is 0.1).
EwmaRounded(weighted_sum) ==
    LET q == weighted_sum \div 10
        rest == weighted_sum % 10
    IN  IF rest < 5 THEN {q} ELSE IF rest > 5 THEN {q + 1} ELSE {q, q + 1}

\* calculate_ewma with the default weights; cp in, cp out (round(x, 2))
calculate_ewma(last_n) == RoundDiv(EwmaSum(last_n, EWMA_WEIGHTS), 10)

\* calculate_time_decay_avg with half_life = 6; cp in, cp out (round(x, 2))
calculate_time_decay_avg(game_history) ==
    IF Len(game_history) = 0 THEN 0
    ELSE LET n == Len(game_history)
         IN  RoundDiv(SumTo([i \in 1..n |-> game_history[i] * DecayWeights[i]], n),
                      SumTo(DecayWeights, n))

\* num/den >= a/b for b > 0 and den # 0
RatioGeq(num, den, a, b) ==
    IF den > 0 THEN b * num >= a * den ELSE b * num <= a * den

\* the trend computed from a single game as well
calculate_trend_score_one_game(last_n, season_avg) ==
    IF Len(last_n) < 1 \/ season_avg = 0 THEN 50
    ELSE LET ewma == calculate_ewma(last_n)
         IN  IF RatioGeq(ewma, season_avg, 13, 10) THEN 90
             ELSE IF RatioGeq(ewma, season_avg, 11, 10) THEN 70
             ELSE IF RatioGeq(ewma, season_avg, 9, 10) THEN 50
             ELSE IF RatioGeq(ewma, season_avg, 8, 10) THEN 40
             ELSE 30

\* calculate_trend_score; tenths
calculate_trend_score(last_n, season_avg) ==
    IF Len(last_n) < 2 \/ season_avg = 0 THEN 50
    ELSE LET ewma == calculate_ewma(last_n)
         IN  IF RatioGeq(ewma, season_avg, 13, 10) THEN 90
             ELSE IF RatioGeq(ewma, season_avg, 11, 10) THEN 70
             ELSE IF RatioGeq(ewma, season_avg, 9, 10) THEN 50
             ELSE IF RatioGeq(ewma, season_avg, 8, 10) THEN 40
             ELSE 30

\* calculate_upside_score; stdev and avg in cp, boom_rate in hundredths; tenths:
\* min(10, round(boom_rate * 6 + (stdev / avg) * 4, 1))
calculate_upside_score(stdev, avg, boom_rate) ==
    IF avg = 0 THEN 0
    ELSE Min(100, RoundDiv(6 * boom_rate * avg + 400 * stdev, 10 * avg))

\* game_details has no entry for the team (or the entry has no implied_pts)
NoEntry == -1

\* the default implied total, 22 points, in cp
DefaultImplied == 2200

\* the offensive branch taken for every position
calculate_matchup_score_continuous_offense(player, gd) ==
    IF player.opp = Absent \/ player.opp = "" \/ player.opp = "BYE" THEN 50
    ELSE LET entry == IF player.opp \in DOMAIN gd THEN gd[player.opp] ELSE NoEntry
             opp_implied == IF entry = NoEntry THEN DefaultImplied ELSE entry
         IN  RoundDiv(100 * (Min(Max(opp_implied, 1700), 2700) - 1700), 1000)

\* a missing entry read as 0 implied points instead of the default 22
calculate_matchup_score_continuous_no_default(player, gd) ==
    IF player.opp = Absent \/ player.opp = "" \/ player.opp = "BYE" THEN 50
    ELSE LET entry == IF player.opp \in DOMAIN gd THEN gd[player.opp] ELSE NoEntry
             opp_implied == IF entry = NoEntry THEN 0 ELSE entry
         IN  IF player.pos = "D/ST"
             THEN RoundDiv(100 * (2800 - Min(Max(opp_implied, 1400), 2800)), 1400)
             ELSE RoundDiv(100 * (Min(Max(opp_implied, 1700), 2700) - 1700), 1000)

\* calculate_matchup_score_continuous; tenths
calculate_matchup_score_continuous(player, gd) ==
    IF player.opp = Absent \/ player.opp = "" \/ player.opp = "BYE" THEN 50
    ELSE LET entry == IF player.opp \in DOMAIN gd THEN gd[player.opp] ELSE NoEntry
             opp_implied == IF entry = NoEntry THEN DefaultImplied ELSE entry
         IN  IF player.pos = "D/ST"
             THEN RoundDiv(100 * (2800 - Min(Max(opp_implied, 1400), 2800)), 1400)
             ELSE RoundDiv(100 * (Min(Max(opp_implied, 1700), 2700) - 1700), 1000)

\* [p.get(field) for p in pool]
FieldOf(pool, field) == [k \in 1..Len(pool) |-> pool[k][field]]

\* [calculate_ewma(p.get('last_n', [])) for p in pool]
EwmaOf(pool) == [k \in 1..Len(pool) |-> calculate_ewma(pool[k].last_n)]

\* the vacancy test without the comparison of ids
calculate_opportunity_score_self(player, player_pool) ==
    LET pos_players == SelectSeq(player_pool, LAMBDA p : p.pos = player.pos)
    IN  IF Len(pos_players) = 0 THEN 500
        ELSE LET start_score == normalize_score_robust(player.start, FieldOf(pos_players, "start"))
                 own_score   == normalize_score_robust(player.own, FieldOf(pos_players, "own"))
                 base        == 6 * start_score + 4 * own_score
                 vacancy     == \E k \in 1..Len(player_pool) :
                                    /\ player_pool[k].team = player.team
                                    /\ player_pool[k].pos = player.pos
                                    /\ player_pool[k].inj \in {"OUT", "IR", "INJURY_RESERVE"}
             IN  Min(1000, base + (IF vacancy THEN 200 ELSE 0))

\* calculate_opportunity_score; HUNDREDTHS (0.6 * tenths + 0.4 * tenths is not rounded)
calculate_opportunity_score(player, player_pool) ==
    LET pos_players == SelectSeq(player_pool, LAMBDA p : p.pos = player.pos)
    IN  IF Len(pos_players) = 0 THEN 500
        ELSE LET start_score == normalize_score_robust(player.start, FieldOf(pos_players, "start"))
                 own_score   == normalize_score_robust(player.own, FieldOf(pos_players, "own"))
                 base        == 6 * start_score + 4 * own_score
                 vacancy     == \E k \in 1..Len(player_pool) :
                                    /\ player_pool[k].team = player.team
                                    /\ player_pool[k].pos = player.pos
                                    /\ player_pool[k].inj \in {"OUT", "IR", "INJURY_RESERVE"}
                                    /\ player_pool[k].id # player.id
             IN  Min(1000, base + (IF vacancy THEN 200 ELSE 0))

\* wind_mph is None
NoWind == -1

\* calculate_kicker_environment; tenths
calculate_kicker_environment(home, dome, wind_mph) ==
    LET b0 == IF home THEN 70 ELSE 50
        b1 == IF dome THEN b0 + 15 ELSE b0
        b2 == IF wind_mph = NoWind THEN b1
              ELSE IF wind_mph >= 20 THEN b1 - 20
              ELSE IF wind_mph >= 12 THEN b1 - 10
              ELSE b1
    IN  Max(0, Min(100, b2))

\* calculate_dst_pressure_score; tenths
calculate_dst_pressure_score(player, all_dst) ==
    IF player.pos # "D/ST" THEN 50
    ELSE LET with_games == SelectSeq(all_dst, LAMBDA d : Len(d.last_n) > 0)
             all_ewma == EwmaOf(with_games)
         IN  IF Len(all_ewma) = 0 THEN 50
             ELSE normalize_score_robust(calculate_ewma(player.last_n), all_ewma)

\* INJURY_PENALTIES.get(status, 0.0)
PenaltyOf(injury_status) ==
    IF injury_status \in DOMAIN INJURY_PENALTIES THEN INJURY_PENALTIES[injury_status] ELSE 0

\* calculate_risk_index. risk_score = 0.6 * |penalty| + 0.4 * min(10, 10 * stdev / avg)
\* is num / (10 * den) with num == 6 * injury_risk * den + 4 * volatility; the
\* category is decided on that quotient, the reported risk_score is it rounded
\* to one decimal (tenths)
calculate_risk_index(injury_status, stdev, avg) ==
    LET injury_risk == IF PenaltyOf(injury_status) < 0 THEN -PenaltyOf(injury_status)
                       ELSE PenaltyOf(injury_status)
        den == IF avg > 0 THEN avg ELSE 1
        volatility == IF avg > 0 THEN Min(10 * avg, 10 * stdev) ELSE 0
        num == 6 * injury_risk * den + 4 * volatility
    IN  [risk_score |-> RoundDiv(num, den),
         risk_category |-> IF num > 60 * den THEN "HIGH"
                           ELSE IF num > 30 * den THEN "MEDIUM" ELSE "LOW",
         use_case |-> IF num > 60 * den THEN "Bench/Stash"
                      ELSE IF num > 30 * den THEN "Flex" ELSE "Core Starter"]

\* the clamp left out: score + penalty
apply_injury_penalty_noclamp(score, injury_status, unit) ==
    score + PenaltyOf(injury_status) * unit

\* apply_injury_penalty; the score counts 1/unit of a point
apply_injury_penalty(score, injury_status, unit) ==
    Max(0, score + PenaltyOf(injury_status) * unit)

\* player.get('inj', 'ACTIVE')
InjOrActive(player) == IF player.inj = Absent THEN "ACTIVE" ELSE player.inj

\* calculate_confidence with the LOW test on games_played < 3 instead of < 2
calculate_confidence_three(player) ==
    LET games_played == Len(player.last_n)
        injury_status == InjOrActive(player)
        cv_lt_half == player.avg > 0 /\ 2 * player.stdev < player.avg
        cv_gt_one  == ~(player.avg > 0) \/ player.stdev > player.avg
    IN  IF games_played >= 3 /\ injury_status = "ACTIVE" /\ cv_lt_half THEN "HIGH"
        ELSE IF games_played < 3 \/ injury_status \in {"OUT", "IR", "DOUBTFUL"} \/ cv_gt_one THEN "LOW"
        ELSE "MEDIUM"

\* calculate_confidence; cv = stdev / avg if avg > 0 else 999, compared exactly
calculate_confidence(player) ==
    LET games_played == Len(player.last_n)
        injury_status == InjOrActive(player)
        cv_lt_half == player.avg > 0 /\ 2 * player.stdev < player.avg
        cv_gt_one  == ~(player.avg > 0) \/ player.stdev > player.avg
    IN  IF games_played >= 3 /\ injury_status = "ACTIVE" /\ cv_lt_half THEN "HIGH"
        ELSE IF games_played < 2 \/ injury_status \in {"OUT", "IR", "DOUBTFUL"} \/ cv_gt_one THEN "LOW"
        ELSE "MEDIUM"

----------------------------------------------------------------------------
(* analyze_player *)

RECURSIVE SumSet(_, _)
\* sum of f[x] over the finite set S
SumSet(S, f) ==
    IF S = {} THEN 0
    ELSE LET x == CHOOSE y \in S : TRUE IN f[x] + SumSet(S \ {x}, f)

\* the decay weighting applied to any non-empty history
TimeDecayAvgOf_always(player) ==
    IF Len(player.last_n) >= 1 THEN calculate_time_decay_avg(player.last_n) ELSE player.avg

\* time_decay_avg of analyze_player: decay-weighted for 3 or more games, else player.get('avg', 0); cp
TimeDecayAvgOf(player) ==
    IF Len(player.last_n) >= 3 THEN calculate_time_decay_avg(player.last_n) ELSE player.avg

\* p['pos'] raises KeyError for a record without 'pos': analyze_player reads
\* player['pos'] and then p['pos'] of EVERY record of the pool
AnalysisRaises(player, player_pool) ==
    \/ player.pos = Absent
    \/ \E k \in 1..Len(player_pool) : player_pool[k].pos = Absent

\* the components dict of analyze_player: key -> score in tenths, except
\* opportunity, which is in hundredths
ComponentsOf(player, player_pool, gd) ==
    LET pos == player.pos
        time_decay_avg == TimeDecayAvgOf(player)
        ewma == calculate_ewma(player.last_n)
        matchup == calculate_matchup_score_continuous(player, gd)
        pos_players == SelectSeq(player_pool, LAMBDA p : p.pos = pos)
        all_implied == FieldOf(SelectSeq(player_pool, LAMBDA p : p.implied_pts # 0), "implied_pts")
        pos_ewma == EwmaOf(SelectSeq(pos_players, LAMBDA p : Len(p.last_n) > 0))
        pos_avg == FieldOf(SelectSeq(pos_players, LAMBDA p : p.avg > 0), "avg")
        pos_proj == FieldOf(SelectSeq(pos_players, LAMBDA p : p.proj > 0), "proj")
        base == [implied_pts |-> IF player.implied_pts # 0
                                 THEN normalize_score_robust(player.implied_pts, all_implied) ELSE 50,
                 ewma_fp     |-> IF Len(pos_ewma) > 0 THEN normalize_score_robust(ewma, pos_ewma) ELSE 50,
                 avg         |-> IF Len(pos_avg) > 0 THEN normalize_score_robust(time_decay_avg, pos_avg) ELSE 50,
                 matchup     |-> matchup,
                 proj        |-> IF Len(pos_proj) > 0 /\ player.proj > 0
                                 THEN normalize_score_robust(player.proj, pos_proj) ELSE 50,
                 trend       |-> calculate_trend_score(player.last_n, time_decay_avg),
                 upside      |-> calculate_upside_score(player.stdev, time_decay_avg, player.boom),
                 opportunity |-> calculate_opportunity_score(player, player_pool)]
    IN  IF pos = "D/ST"
        THEN [opp_implied_low |-> matchup,
              pressure |-> calculate_dst_pressure_score(player, SelectSeq(player_pool, LAMBDA p : p.pos = "D/ST")),
              home |-> IF player.home THEN 70 ELSE 50] @@ base
        ELSE IF pos = "K"
        THEN [home |-> calculate_kicker_environment(player.home, player.dome, player.wind_mph)] @@ base
        ELSE base

\* consistency_score, never rounded: [num, den] with den > 0, in tenths:
\* 10 - min(10, (stdev / time_decay_avg) * 10) if time_decay_avg > 0 else 5.0
ConsistencyOf(player) ==
    LET t == TimeDecayAvgOf(player)
    IN  IF t > 0 THEN [num |-> 100 * t - Min(100 * t, 100 * player.stdev), den |-> t]
        ELSE [num |-> 50, den |-> 1]

\* table.get(pos, table['WR']) for a table of starter weight vectors
StarterWeightsIn(table, pos) ==
    IF pos \in DOMAIN table THEN table[pos] ELSE table["WR"]

\* STARTER_WEIGHTS.get(pos, STARTER_WEIGHTS['WR'])
StarterWeightsOf(pos) == StarterWeightsIn(STARTER_WEIGHTS, pos)

\* base starter score, thousandths: sum of components.get(key, 5.0) * weight
StarterBase(components, starter_weights) ==
    SumSet(DOMAIN starter_weights,
           [key \in DOMAIN starter_weights |->
               (IF key \in DOMAIN components THEN components[key] ELSE 50) * starter_weights[key]])

\* base waiver score, ten-thousandths
WaiverBase(components) ==
    10 * ( components.upside * WAIVER_WEIGHTS.upside
         + components.trend * WAIVER_WEIGHTS.trend
         + components.implied_pts * WAIVER_WEIGHTS.implied_pts
         + components.avg * WAIVER_WEIGHTS.avg )
    + components.opportunity * WAIVER_WEIGHTS.opportunity

\* base rest-of-season score, in 1/(1000 * consistency.den) of a point
RosBase(components, consistency) ==
    consistency.den * ( components.avg * ROS_WEIGHTS.avg
                      + components.trend * ROS_WEIGHTS.trend
                      + components.implied_pts * ROS_WEIGHTS.implied_pts
                      + components.proj * ROS_WEIGHTS.proj )
    + consistency.num * ROS_WEIGHTS.consistency

\* one line of apply_confidence_scaling: round(score * multiplier, 2), hundredths;
\* the score counts 1/unit of a point, unit a multiple of 10. A product that is
\* exactly half a hundredth is rounded to even here; Python rounds the binary
\* float, which can give the other neighbour (4.55 * 0.9 gives 4.09).
ScaleRound(score, unit, confidence) ==
    RoundDiv(score * CONFIDENCE_MULTIPLIERS[confidence], unit \div 10)

\* the flags list of analyze_player (as a set)
FlagsOf(player) ==
    (IF player.bye THEN {"BYE"} ELSE {}) \cup
    (IF player.inj \notin {"ACTIVE", ""} THEN {"INJURY"} ELSE {})

\* the penalty before the scaling: ScaleRound(apply_injury_penalty(score, ...), ...), hundredths
FinalScore_scale_first(score, injury_status, unit, confidence) ==
    Max(0, ScaleRound(score, unit, confidence) + PenaltyOf(injury_status) * 100)

\* one composite score through the lines after the weighted sums:
\* apply_injury_penalty, then apply_confidence_scaling; hundredths
FinalScore(score, injury_status, unit, confidence) ==
    ScaleRound(apply_injury_penalty(score, injury_status, unit), unit, confidence)

\* the order of the keys of each weight dict (the order weights.items() yields)
STARTER_KEYS ==
    ("QB"   :> <<"implied_pts", "ewma_fp", "avg", "matchup", "proj">>) @@
    ("RB"   :> <<"implied_pts", "ewma_fp", "avg", "matchup", "proj">>) @@
    ("WR"   :> <<"ewma_fp", "avg", "implied_pts", "matchup", "proj">>) @@
    ("TE"   :> <<"avg", "ewma_fp", "implied_pts", "matchup", "proj">>) @@
    ("D/ST" :> <<"matchup", "opp_implied_low", "pressure", "home", "proj">>) @@
    ("K"    :> <<"implied_pts", "proj", "home", "avg">>)

WAIVER_KEYS == <<"upside", "trend", "implied_pts", "opportunity", "avg">>

ROS_KEYS == <<"avg", "trend", "implied_pts", "consistency", "proj">>

\* the dict passed for waiver_reasons, every value in hundredths
WaiverComponents(components) ==
    [upside |-> 10 * components.upside, trend |-> 10 * components.trend,
     implied_pts |-> 10 * components.implied_pts, opportunity |-> components.opportunity,
     avg |-> 10 * components.avg]

\* the dict passed for ros_reasons, every value in 1/(10 * consistency.den)
RosComponents(components, consistency) ==
    [avg |-> consistency.den * components.avg, trend |-> consistency.den * components.trend,
     implied_pts |-> consistency.den * components.implied_pts, consistency |-> consistency.num,
     proj |-> consistency.den * components.proj]

\* the first k keys in dict order, the sort left out
extract_top_reasons_unsorted(components, weights, keys, k) ==
    LET present == SelectSeq(keys, LAMBDA key : key \in DOMAIN components)
    IN  [r \in 1..Min(k, Len(present)) |-> [key |-> present[r], pct |-> weights[present[r]]]]

\* extract_top_reasons: contributions in the order of weights.items(), sorted
\* by contribution, largest first (list.sort is stable, reverse=True keeps the
\* order of equal contributions), the first k kept; an entry "key (pct%)" is
\* [key, pct]. Contributions are compared exactly: two float products that
\* are equal as decimals can differ in the last bit, which can only change
\* the order among exactly tied components.
extract_top_reasons(components, weights, keys, k) ==
    LET present == SelectSeq(keys, LAMBDA key : key \in DOMAIN components)
        n == Len(present)
        contrib == [i \in 1..n |-> components[present[i]] * weights[present[i]]]
        rank == [i \in 1..n |->
                    Cardinality({j \in 1..n : contrib[j] > contrib[i]})
                    + Cardinality({j \in 1..(i - 1) : contrib[j] = contrib[i]})]
    IN  [r \in 1..Min(k, n) |->
            LET i == CHOOSE x \in 1..n : rank[x] = r - 1
            IN  [key |-> present[i], pct |-> weights[present[i]]]]

\* calculate_weights_checksum: the first 8 hex digits of the SHA-256 of
\* json.dumps(weights, sort_keys=True). The serialization depends on the keys
\* and values of the dict and not on their order, as the function value
\* does; the digest is kept as an uninterpreted function of it.
calculate_weights_checksum(weights) == [sha256_8 |-> weights]

\* a checksum that covers the starter vector of the player's position only
WeightsChecksumOf_position(player, player_pool, gd) ==
    [STARTER |-> calculate_weights_checksum(StarterWeightsOf(player.pos)),
     WAIVER  |-> calculate_weights_checksum(WAIVER_WEIGHTS),
     ROS     |-> calculate_weights_checksum(ROS_WEIGHTS)]

\* weights_checksum of analyze_player(player, player_pool, game_details):
\* f"STARTER:{...}|WAIVER:{...}|ROS:{...}" over the three module-level tables
WeightsChecksumOf(player, player_pool, gd) ==
    [STARTER |-> calculate_weights_checksum(STARTER_WEIGHTS),
     WAIVER  |-> calculate_weights_checksum(WAIVER_WEIGHTS),
     ROS     |-> calculate_weights_checksum(ROS_WEIGHTS)]

\* analyze_player, for a call that does not raise. base, penalized and unit
\* are the locals starter_score, waiver_score and ros_score after the weighted
\* sums and after apply_injury_penalty, each counting 1/unit of a point.
analyze_player(player, player_pool, gd) ==
    LET components == ComponentsOf(player, player_pool, gd)
        consistency == ConsistencyOf(player)
        inj == InjOrActive(player)
        confidence == calculate_confidence(player)
        risk == calculate_risk_index(inj, player.stdev, TimeDecayAvgOf(player))
        starter_weights == StarterWeightsOf(player.pos)
        starter_keys == StarterWeightsIn(STARTER_KEYS, player.pos)
        unit == [starter |-> 1000, waiver |-> 10000, ros |-> 1000 * consistency.den]
        base == [starter |-> StarterBase(components, starter_weights),
                 waiver  |-> WaiverBase(components),
                 ros     |-> RosBase(components, consistency)]
    IN  [id |-> player.id,
         position |-> player.pos,
         team |-> player.team,
         starter_score |-> FinalScore(base.starter, inj, unit.starter, confidence),
         waiver_score |-> FinalScore(base.waiver, inj, unit.waiver, confidence),
         ros_score |-> FinalScore(base.ros, inj, unit.ros, confidence),
         risk_index |-> risk.risk_score,
         risk_category |-> risk.risk_category,
         confidence |-> confidence,
         confidence_multiplier |-> CONFIDENCE_MULTIPLIERS[confidence],
         components |-> components,
         consistency |-> consistency,
         time_decay_avg |-> TimeDecayAvgOf(player),
         injury_status |-> inj,
         starter_reasons |-> extract_top_reasons(components, starter_weights, starter_keys, 3),
         waiver_reasons |-> extract_top_reasons(WaiverComponents(components), WAIVER_WEIGHTS, WAIVER_KEYS, 3),
         ros_reasons |-> extract_top_reasons(RosComponents(components, consistency), ROS_WEIGHTS, ROS_KEYS, 3),
         flags |-> FlagsOf(player),
         metadata |-> [weights_checksum |-> WeightsChecksumOf(player, player_pool, gd)],
         unit |-> unit,
         base |-> base,
         penalized |-> [s \in DOMAIN base |-> apply_injury_penalty(base[s], inj, unit[s])]]

----------------------------------------------------------------------------
(* The inputs of analyze_players *)

\* longest pool of the exhaustive family
MaxPool == 3

TeamCodes == {"T1", "T2", "T9"}

\* analyze_players called without game_details: {}
NoGameDetails == [t \in TeamCodes |-> NoEntry]

\* main(): game_details[team] = implied_pts of the last record that has team,
\* opp and implied_pts
BuildGameDetails(all_players) ==
    [t \in TeamCodes |->
        LET has == {k \in 1..Len(all_players) :
                       /\ all_players[k].team = t
                       /\ all_players[k].opp \notin {Absent, ""}
                       /\ all_players[k].implied_pts # 0}
        IN  IF has = {} THEN NoEntry
            ELSE all_players[CHOOSE k \in has : \A j \in has : j <= k].implied_pts]

InjuryStatuses == {Absent, "ACTIVE", "QUESTIONABLE", "DOUBTFUL", "OUT", "IR", "INJURY_RESERVE"}

\* season lines: recent games (most recent first), average, stdev, projection,
\* implied points (cp); boom rate (hundredths); start and own percentages
LineStrong   == [last_n |-> <<2000, 1500, 1000>>, avg |-> 1500, stdev |-> 400, boom |-> 20,
                 proj |-> 1600, start |-> 80, own |-> 90, implied_pts |-> 2800]
LineOneGame  == [last_n |-> <<500>>, avg |-> 600, stdev |-> 500, boom |-> 0,
                 proj |-> 700, start |-> 10, own |-> 20, implied_pts |-> 2000]
LineTwoGames == [last_n |-> <<1200, 300>>, avg |-> 800, stdev |-> 900, boom |-> 50,
                 proj |-> 900, start |-> 40, own |-> 50, implied_pts |-> 2400]
LineTwoSteady == [last_n |-> <<1000, 600>>, avg |-> 800, stdev |-> 500, boom |-> 10,
                 proj |-> 850, start |-> 50, own |-> 60, implied_pts |-> 2500]
LineNegative == [last_n |-> <<-200, -300, 100>>, avg |-> -100, stdev |-> 200, boom |-> 0,
                 proj |-> 100, start |-> 5, own |-> 5, implied_pts |-> 1700]
LineNegAvg   == [last_n |-> <<-100>>, avg |-> -100, stdev |-> 300, boom |-> 0,
                 proj |-> 0, start |-> 0, own |-> 1, implied_pts |-> 2200]
LineEmpty    == [last_n |-> <<>>, avg |-> 0, stdev |-> 0, boom |-> 0,
                 proj |-> 0, start |-> 0, own |-> 0, implied_pts |-> 0]

StatLines == {LineStrong, LineOneGame, LineTwoGames, LineTwoSteady, LineNegative, LineNegAvg, LineEmpty}

\* game context of a record
Contexts ==
    { [opp |-> "T2", home |-> TRUE, dome |-> FALSE, wind_mph |-> NoWind, bye |-> FALSE],
      [opp |-> "T9", home |-> FALSE, dome |-> TRUE, wind_mph |-> 25, bye |-> FALSE],
      [opp |-> "BYE", home |-> FALSE, dome |-> FALSE, wind_mph |-> 15, bye |-> TRUE],
      [opp |-> Absent, home |-> FALSE, dome |-> FALSE, wind_mph |-> NoWind, bye |-> FALSE] }

HomeContext == [opp |-> "T2", home |-> TRUE, dome |-> FALSE, wind_mph |-> NoWind, bye |-> FALSE]

\* a player record; id 0 stands for a missing (or falsy) id
PlayerRecord(id, pos, team, inj, line, ctx) ==
    [id |-> id, pos |-> pos, team |-> team, inj |-> inj] @@ line @@ ctx

\* the exhaustive family: every pool of up to MaxPool of these records
BatchRecords ==
    {PlayerRecord(id, pos, "T1", "ACTIVE", line, HomeContext) :
        id \in {0, 1, 2}, pos \in {"QB", "RB"}, line \in {LineStrong, LineOneGame}}
    \cup
    {PlayerRecord(id, Absent, "T1", "ACTIVE", LineStrong, HomeContext) : id \in {0, 1}}

\* the single-player family: one record of any position, status, season line
\* and context, alone or ahead of three players of its position
FocusPositions == {"QB", "TE", "K", "D/ST", "FLEX"}

FocusRecords ==
    {PlayerRecord(1, pos, "T1", inj, line, ctx) :
        pos \in FocusPositions, inj \in InjuryStatuses, line \in StatLines, ctx \in Contexts}

BackgroundOf(pos) ==
    << PlayerRecord(11, pos, "T2", "ACTIVE", LineStrong, HomeContext),
       PlayerRecord(12, pos, "T2", "ACTIVE", LineOneGame, HomeContext),
       PlayerRecord(13, pos, "T2", "QUESTIONABLE", LineTwoGames, HomeContext) >>

FocusPools == {<<f>> : f \in FocusRecords} \cup {<<f>> \o BackgroundOf(f.pos) : f \in FocusRecords}

Pools == SeqsUpTo(BatchRecords, MaxPool) \cup FocusPools

----------------------------------------------------------------------------
(* analyze_players *)

\* no function is called on its own
NoCall == [fn |-> "none"]
NoRet == [fn |-> "none"]

Init ==
    /\ players \in Pools
    /\ game_details \in {NoGameDetails, BuildGameDetails(players)}
    /\ idx = 1
    /\ results = <<>>
    /\ log = <<>>
    /\ pc = "loop"
    /\ nvalue = 0
    /\ ncohort = <<>>
    /\ nout = [value |-> -1, p5 |-> -1, p95 |-> -1]
    /\ call = NoCall
    /\ ret = NoRet

\* if not player_id: continue
SkipNoId ==
    /\ pc = "loop"
    /\ idx <= Len(players)
    /\ players[idx].id = 0
    /\ idx' = idx + 1
    /\ UNCHANGED <<players, game_details, results, log, pc, nvalue, ncohort, nout, call, ret>>

\* the analysis writing its time-decayed average back into the record:
\* player['avg'] = time_decay_avg
AnalyzeOk_writing_back ==
    /\ pc = "loop"
    /\ idx <= Len(players)
    /\ players[idx].id # 0
    /\ ~AnalysisRaises(players[idx], players)
    /\ results' = (players[idx].id :> analyze_player(players[idx], players, game_details)) @@ results
    /\ players' = [players EXCEPT ![idx].avg = TimeDecayAvgOf(players[idx])]
    /\ idx' = idx + 1
    /\ UNCHANGED <<game_details, log, pc, nvalue, ncohort, nout, call, ret>>

\* results[player_id] = analyze_player(player, players, game_details)
AnalyzeOk ==
    /\ pc = "loop"
    /\ idx <= Len(players)
    /\ players[idx].id # 0
    /\ ~AnalysisRaises(players[idx], players)
    /\ results' = (players[idx].id :> analyze_player(players[idx], players, game_details)) @@ results
    /\ idx' = idx + 1
    /\ UNCHANGED <<players, game_details, log, pc, nvalue, ncohort, nout, call, ret>>

\* except Exception as e: print(...); continue
AnalyzeError ==
    /\ pc = "loop"
    /\ idx <= Len(players)
    /\ players[idx].id # 0
    /\ AnalysisRaises(players[idx], players)
    /\ log' = Append(log, idx)
    /\ idx' = idx + 1
    /\ UNCHANGED <<players, game_details, results, pc, nvalue, ncohort, nout, call, ret>>

\* return results
Return ==
    /\ pc = "loop"
    /\ idx > Len(players)
    /\ pc' = "done"
    /\ UNCHANGED <<players, game_details, idx, results, log, nvalue, ncohort, nout, call, ret>>

Next == SkipNoId \/ AnalyzeOk \/ AnalyzeError \/ Return

Spec == Init /\ [][Next]_vars

----------------------------------------------------------------------------
(* Claims about analyze_player and analyze_players, checked under Spec *)

\* the record whose analysis results[id] holds: the last one processed with that id
LastIndexOf(id) ==
    CHOOSE k \in 1..(idx - 1) :
        /\ players[k].id = id
        /\ \A j \in 1..(idx - 1) : players[j].id = id => j <= k

\* the positions of the records named by a print() of the loop
Logged == {log[n] : n \in 1..Len(log)}

\* C1: for every record analyze_player accepts (any position, any injury
\* status, OUT and IR included, any numeric inputs) each of starter_score,
\* waiver_score and ros_score of the returned analysis is >= 0.
C1_ScoresNonNegative ==
    \A id \in DOMAIN results :
        /\ results[id].starter_score >= 0
        /\ results[id].waiver_score >= 0
        /\ results[id].ros_score >= 0

\* an OUT player whose three weighted sums were all below the penalty of 10
\* has been analysed, each score clamped to 0
C1_Witness ==
    \E id \in DOMAIN results :
        LET p == players[LastIndexOf(id)]
            c == results[id].components
        IN  /\ results[id].injury_status = "OUT"
            /\ StarterBase(c, StarterWeightsOf(p.pos)) > 0
            /\ StarterBase(c, StarterWeightsOf(p.pos)) - 10000 < 0
            /\ WaiverBase(c) - 100000 < 0
            /\ results[id].starter_score = 0
            /\ results[id].waiver_score = 0
            /\ results[id].ros_score = 0

\* a component of an analysis lies in [0,10]
ComponentInRange(a, key) ==
    IF key = "opportunity" THEN a.components[key] >= 0 /\ a.components[key] <= 1000
    ELSE a.components[key] >= 0 /\ a.components[key] <= 100

\* C2: in every analysis every component value used for scoring (implied_pts,
\* ewma_fp, avg, matchup, proj, trend, upside, opportunity, consistency, and
\* the K / D/ST extras home, pressure, opp_implied_low) lies in [0,10], also
\* for records whose recent game totals or averages are negative.
C2_ComponentsInRange ==
    \A id \in DOMAIN results :
        /\ \A key \in DOMAIN results[id].components : ComponentInRange(results[id], key)
        /\ results[id].consistency.num >= 0
        /\ results[id].consistency.num <= 100 * results[id].consistency.den

\* C3: a record whose analysis fails (a record with no position) never aborts
\* the batch and only that record is excluded: the call returns, and the
\* output holds an analysis for every other record that has an id and is
\* itself well-formed.
C3_OnlyFailingRecordExcluded ==
    pc = "done" =>
        \A k \in 1..Len(players) :
            (players[k].id # 0 /\ players[k].pos # Absent) => players[k].id \in DOMAIN results

\* the cohort-normalized components
CohortKeys == {"implied_pts", "ewma_fp", "avg", "proj", "opportunity"}

\* C4: every cohort-normalized component of a player (implied_pts, ewma_fp,
\* avg, proj, and the start% / own% parts of opportunity) is normalized against
\* the same-position players only: with the records of the other positions
\* removed from the pool, each of these components of the player is the same.
C4_CohortIsSamePosition ==
    \A id \in DOMAIN results :
        LET p == players[LastIndexOf(id)]
            same_pos == SelectSeq(players, LAMBDA q : q.pos = p.pos)
            alone == ComponentsOf(p, same_pos, game_details)
        IN  \A key \in CohortKeys : results[id].components[key] = alone[key]

\* C8: when the pool holds only 2 players of a position, every normalized
\* component of each of the two is exactly 5.0 (opportunity: 5.0 plus the
\* vacancy bonus, if any), whatever the rest of the pool holds.
C8_TwoPlayerCohortNeutral ==
    \A id \in DOMAIN results :
        LET a == results[id]
            same_pos == SelectSeq(players, LAMBDA q : q.pos = a.position)
        IN  Len(same_pos) = 2 =>
                /\ a.components.implied_pts = Neutral
                /\ a.components.ewma_fp = Neutral
                /\ a.components.avg = Neutral
                /\ a.components.proj = Neutral
                /\ a.components.opportunity \in {500, 700}
                /\ ("pressure" \in DOMAIN a.components => a.components.pressure = Neutral)

\* C9: when two records of the pool carry the same id, the duplicate is
\* surfaced (reported or rejected) and the analysis of the earlier record is
\* not silently replaced by the analysis of the later one.
C9_DuplicateIdNotOverwritten ==
    pc = "done" =>
        \A i, j \in 1..Len(players) :
            (i < j /\ players[i].id # 0 /\ players[i].id = players[j].id
                   /\ ~AnalysisRaises(players[i], players)) =>
                \/ i \in Logged
                \/ j \in Logged
                \/ results[players[i].id] = analyze_player(players[i], players, game_details)

\* C10: every record that analyze_players leaves out of its output, for want
\* of an id or because its analysis raised, is reported:
\* input count = output count + reported skips.
C10_EveryDropReported ==
    pc = "done" => Len(players) = Cardinality(DOMAIN results) + Len(log)

\* the three composite scores
ScoreNames == {"starter", "waiver", "ros"}

\* the analysis the record at position i gets when it is ACTIVE and
\* everything else (the record, the pool, the game context) is the same
ActiveTwin(i) ==
    analyze_player([players[i] EXCEPT !.inj = "ACTIVE"],
                   [players EXCEPT ![i] = [@ EXCEPT !.inj = "ACTIVE"]], game_details)

\* C13: for every injury status s and every composite score, the score before
\* confidence scaling equals max(0, base + penalty(s)), where base is the
\* weighted sum an otherwise identical ACTIVE player gets and penalty is 0 for
\* ACTIVE, -1 for QUESTIONABLE, -3 for DOUBTFUL and -10 for OUT and IR.
C13_PenaltyThenClamp ==
    \A id \in DOMAIN results :
        LET i == LastIndexOf(id)
            s == players[i].inj
            penalty == ("ACTIVE" :> 0) @@ ("QUESTIONABLE" :> -1) @@ ("DOUBTFUL" :> -3) @@
                       ("OUT" :> -10) @@ ("IR" :> -10)
            twin == ActiveTwin(i)
        IN  s \in DOMAIN penalty =>
                \A score \in ScoreNames :
                    results[id].penalized[score] =
                        Max(0, twin.base[score] + penalty[s] * twin.unit[score])

\* one run holds a QUESTIONABLE player whose starter sum lost exactly 1 point
\* and stayed positive, and an OUT player whose positive sums were clamped to 0
C13_Witness ==
    /\ \E id \in DOMAIN results :
          /\ players[LastIndexOf(id)].inj = "QUESTIONABLE"
          /\ results[id].penalized.starter = results[id].base.starter - 1000
          /\ results[id].penalized.starter > 0
    /\ \E id \in DOMAIN results :
          /\ players[LastIndexOf(id)].inj = "OUT"
          /\ results[id].base.starter > 0
          /\ results[id].base.ros > 0
          /\ results[id].penalized.starter = 0
          /\ results[id].penalized.ros = 0

\* the multipliers as the specification lists them, tenths: 1.00, 0.90, 0.80
StatedMultiplier == [HIGH |-> 10, MEDIUM |-> 9, LOW |-> 8]

\* max(0, base + penalty) of one score of an analysis, in 1/unit of a point
PenalizedBase(a, score) ==
    Max(0, a.base[score] + PenaltyOf(a.injury_status) * a.unit[score])

\* the reported value of one score of an analysis, hundredths
Reported(a, score) ==
    CASE score = "starter" -> a.starter_score
      [] score = "waiver"  -> a.waiver_score
      [] score = "ros"     -> a.ros_score

\* r is num/den rounded to a nearest integer (either neighbour for an exact half)
IsRounding(r, num, den) ==
    /\ 2 * (r * den - num) <= den
    /\ 2 * (num - r * den) <= den

\* C14 as stated: each reported composite score EQUALS max(0, base + penalty)
\* multiplied by the confidence multiplier.
C14_Original ==
    \A id \in DOMAIN results : \A score \in ScoreNames :
        LET a == results[id]
            product == PenalizedBase(a, score) * StatedMultiplier[a.confidence]
        IN  /\ product % (a.unit[score] \div 10) = 0
            /\ Reported(a, score) = product \div (a.unit[score] \div 10)

\* C14 amended: confidence scaling is applied after the injury penalty and
\* clamp: each reported composite score equals max(0, base + penalty) times the
\* confidence multiplier (1.00 HIGH, 0.90 MEDIUM, 0.80 LOW), rounded to 2
\* decimals; the multiplier is the same for the three scores of a player and
\* the reported confidence_multiplier is the one that was applied.
C14_ScalingAfterPenalty ==
    \A id \in DOMAIN results :
        LET a == results[id]
        IN  /\ a.confidence_multiplier = StatedMultiplier[a.confidence]
            /\ \A score \in ScoreNames :
                  IsRounding(Reported(a, score),
                             PenalizedBase(a, score) * a.confidence_multiplier,
                             a.unit[score] \div 10)

\* a penalized player below HIGH confidence whose starter score is positive
\* and differs from what scaling before the penalty would have given
C14_Witness ==
    \E id \in DOMAIN results :
        LET a == results[id]
        IN  /\ a.confidence # "HIGH"
            /\ PenaltyOf(a.injury_status) < 0
            /\ a.starter_score > 0
            /\ a.starter_score # FinalScore_scale_first(a.base.starter, a.injury_status,
                                                        a.unit.starter, a.confidence)

\* the classification as the specification words it, from the number of games,
\* the status and the two tests on the coefficient of variation
Classify(games, status, cv_below_half, cv_above_one) ==
    IF games >= 3 /\ status = "ACTIVE" /\ cv_below_half THEN "HIGH"
    ELSE IF games < 2 \/ status \in {"OUT", "IR", "DOUBTFUL"} \/ cv_above_one THEN "LOW"
    ELSE "MEDIUM"

\* stdev / avg < 1/2 and stdev / avg > 1 for avg # 0, without division
QuotientBelowHalf(stdev, avg) == IF avg > 0 THEN 2 * stdev < avg ELSE 2 * stdev > avg
QuotientAboveOne(stdev, avg) == IF avg > 0 THEN stdev > avg ELSE stdev < avg

\* C15 as stated: the coefficient of variation is stdev/avg (taken wherever
\* the quotient exists, avg # 0).
C15_Original ==
    \A id \in DOMAIN results :
        LET p == players[LastIndexOf(id)]
        IN  p.avg # 0 =>
                results[id].confidence =
                    Classify(Len(p.last_n), InjOrActive(p),
                             QuotientBelowHalf(p.stdev, p.avg), QuotientAboveOne(p.stdev, p.avg))

\* C15 amended: calculate_confidence returns exactly one of HIGH, MEDIUM, LOW:
\* HIGH iff at least 3 games, status ACTIVE (a missing status counts as ACTIVE)
\* and coefficient of variation below 0.5; otherwise LOW iff fewer than 2
\* games, or status OUT, IR or DOUBTFUL, or coefficient of variation above 1.0;
\* otherwise MEDIUM; the coefficient of variation is stdev/avg when avg > 0 and
\* counts as 999 (above 1.0) when avg <= 0.
C15_ConfidenceClasses ==
    \A id \in DOMAIN results :
        LET p == players[LastIndexOf(id)]
        IN  /\ results[id].confidence \in {"HIGH", "MEDIUM", "LOW"}
            /\ results[id].confidence =
                   Classify(Len(p.last_n), InjOrActive(p),
                            p.avg > 0 /\ QuotientBelowHalf(p.stdev, p.avg),
                            p.avg <= 0 \/ QuotientAboveOne(p.stdev, p.avg))

\* a player with 3 games, ACTIVE and a negative average (stdev/avg below 0.5)
\* is LOW, next to a HIGH player
C15_Witness ==
    /\ \E id \in DOMAIN results : results[id].confidence = "HIGH"
    /\ \E id \in DOMAIN results :
          LET p == players[LastIndexOf(id)]
          IN  /\ Len(p.last_n) >= 3 /\ InjOrActive(p) = "ACTIVE" /\ p.avg < 0
              /\ results[id].confidence = "LOW"

\* C16: the weights checksum of an analysis is a function of the three weight
\* tables only: every player's metadata.weights_checksum is the same within
\* a run, whatever the player record and the game context, and every run with
\* these tables (every pool, every game context) yields that same checksum.
C16_ChecksumFromTablesOnly ==
    /\ \A id1, id2 \in DOMAIN results :
          results[id1].metadata.weights_checksum = results[id2].metadata.weights_checksum
    /\ \A id \in DOMAIN results :
          results[id].metadata.weights_checksum =
              [STARTER |-> calculate_weights_checksum(STARTER_WEIGHTS),
               WAIVER  |-> calculate_weights_checksum(WAIVER_WEIGHTS),
               ROS     |-> calculate_weights_checksum(ROS_WEIGHTS)]

\* a run given a game context has analysed two players that differ in position
\* and in season line
C16_Witness ==
    /\ pc = "done"
    /\ game_details # NoGameDetails
    /\ \E id1, id2 \in DOMAIN results :
          /\ results[id1].position # results[id2].position
          /\ results[id1].time_decay_avg # results[id2].time_decay_avg

\* a reasons list is a top 3 of a weight table: 3 entries, 3 distinct keys of
\* the table, contributions (component value times weight) non-increasing, no
\* key left out with a larger contribution than a listed one
IsTopThree(reasons, components, weights) ==
    LET listed == {reasons[r].key : r \in 1..Len(reasons)}
        contribution == [key \in DOMAIN weights |-> components[key] * weights[key]]
    IN  /\ Len(reasons) = 3
        /\ Cardinality(listed) = 3
        /\ listed \subseteq DOMAIN weights
        /\ \A r \in 1..2 : contribution[reasons[r].key] >= contribution[reasons[r + 1].key]
        /\ \A out \in DOMAIN weights \ listed : \A key \in listed :
              contribution[out] <= contribution[key]

\* C17: for every player of every position, each of starter_reasons,
\* waiver_reasons and ros_reasons has exactly 3 entries naming 3 distinct
\* components of that score's weight table, ordered by non-increasing weighted
\* contribution, and no component left out has a larger contribution than one
\* listed.
C17_TopThreeReasons ==
    \A id \in DOMAIN results :
        LET a == results[id]
        IN  /\ IsTopThree(a.starter_reasons, a.components, StarterWeightsOf(a.position))
            /\ IsTopThree(a.waiver_reasons, WaiverComponents(a.components), WAIVER_WEIGHTS)
            /\ IsTopThree(a.ros_reasons, RosComponents(a.components, a.consistency), ROS_WEIGHTS)

\* a kicker (a table of four weights) has been analysed, and the three listed
\* components are not the first three of the table in either list
C17_Witness ==
    \E id \in DOMAIN results :
        /\ results[id].position = "K"
        /\ results[id].starter_reasons #
               extract_top_reasons_unsorted(results[id].components, StarterWeightsOf("K"),
                                            STARTER_KEYS["K"], 3)
        /\ results[id].waiver_reasons[1].key # "upside"

\* C18: analyze_players and analyze_player never modify their inputs: no step
\* of the call changes a player record of the pool (any field, last_n
\* included) or the game-context mapping.
C18_InputsNotModified ==
    [][players' = players /\ game_details' = game_details]_vars

\* the call has returned with analyses of records that have a game history,
\* made with a game context
C18_Witness ==
    /\ pc = "done"
    /\ game_details # NoGameDetails
    /\ \E id \in DOMAIN results : Len(players[LastIndexOf(id)].last_n) >= 3

\* C19: the time-decayed average for a history of 1 or 2 games is the raw
\* season average, not a decay-weighted mean of those games; decay weighting
\* is used only when at least 3 games of history are available.
C19_ShortHistoryUsesSeasonAverage ==
    \A id \in DOMAIN results :
        LET p == players[LastIndexOf(id)]
        IN  /\ Len(p.last_n) \in {1, 2} => results[id].time_decay_avg = p.avg
            /\ results[id].time_decay_avg # p.avg => Len(p.last_n) >= 3
            /\ Len(p.last_n) >= 3 =>
                  results[id].time_decay_avg = calculate_time_decay_avg(p.last_n)

\* a player with two games whose season average is not the decay-weighted mean
\* of those games, and a player with three games whose time-decayed average is
\* not the season average
C19_Witness ==
    /\ \E id \in DOMAIN results :
          LET p == players[LastIndexOf(id)]
          IN  /\ Len(p.last_n) = 2
              /\ calculate_time_decay_avg(p.last_n) # p.avg
              /\ results[id].time_decay_avg = p.avg
    /\ \E id \in DOMAIN results :
          LET p == players[LastIndexOf(id)]
          IN  Len(p.last_n) >= 3 /\ results[id].time_decay_avg # p.avg

\* C26: for every position (one without a weight table included, which is
\* scored with the WR weights) and every record whose stdev is not negative,
\* each of starter_score, waiver_score and ros_score lies in [0, 10].
C26_CompositeScoresInRange ==
    \A id \in DOMAIN results :
        players[LastIndexOf(id)].stdev >= 0 =>
            /\ results[id].starter_score \in 0..1000
            /\ results[id].waiver_score \in 0..1000
            /\ results[id].ros_score \in 0..1000

\* a record of a position without a weight table, stdev not negative, scored
\* with the WR weights, whose starter score is 9.5 or more
C26_Witness ==
    \E id \in DOMAIN results :
        LET p == players[LastIndexOf(id)]
        IN  /\ p.pos \notin DOMAIN STARTER_WEIGHTS
            /\ p.stdev >= 0
            /\ results[id].base.starter = StarterBase(results[id].components, STARTER_WEIGHTS["WR"])
            /\ results[id].starter_score >= 950

\* C28: in every analysis the INJURY flag is present exactly when the injury
\* status used for scoring and reported in metadata.injury_status (the
\* record's status, ACTIVE when the field is absent) is not ACTIVE.
C28_InjuryFlagMatchesStatus ==
    \A id \in DOMAIN results :
        ("INJURY" \in results[id].flags) <=> (results[id].injury_status # "ACTIVE")

\* C29: every player whose status is OUT, IR or INJURY_RESERVE and whose stdev
\* is not negative has starter_score, waiver_score and ros_score all equal to
\* 0, whatever the other metrics are.
C29_UnavailableScoresZero ==
    \A id \in DOMAIN results :
        LET p == players[LastIndexOf(id)]
        IN  (p.inj \in {"OUT", "IR", "INJURY_RESERVE"} /\ p.stdev >= 0) =>
                /\ results[id].starter_score = 0
                /\ results[id].waiver_score = 0
                /\ results[id].ros_score = 0

\* a player on injured reserve whose weighted sums were high (starter 9 points
\* or more, waiver and rest-of-season 5 or more) has all three scores 0
C29_Witness ==
    \E id \in DOMAIN results :
        LET p == players[LastIndexOf(id)]
        IN  /\ p.inj \in {"IR", "INJURY_RESERVE"}
            /\ p.stdev >= 0
            /\ results[id].base.starter >= 9 * results[id].unit.starter
            /\ results[id].base.waiver >= 5 * results[id].unit.waiver
            /\ results[id].base.ros >= 5 * results[id].unit.ros
            /\ results[id].starter_score = 0
            /\ results[id].waiver_score = 0
            /\ results[id].ros_score = 0

----------------------------------------------------------------------------
(* A call of normalize_score_robust on its own *)

NoOut == [value |-> -1, p5 |-> -1, p95 |-> -1]

InitNorm ==
    /\ players = <<>>
    /\ game_details = <<>>
    /\ idx = 1
    /\ results = <<>>
    /\ log = <<>>
    /\ pc = "norm"
    /\ ncohort \in SeqsUpTo(0..MaxVal, MaxCohort)
    /\ nvalue \in -1..(MaxVal + 1)
    /\ nout = NoOut
    /\ call = NoCall
    /\ ret = NoRet

\* the call: the score of the value, and (for a cohort that has percentiles)
\* the scores of the cohort's own 5th and 95th percentile
Normalize ==
    /\ pc = "norm"
    /\ pc' = "normdone"
    /\ nout' = [value |-> normalize_score_robust(nvalue, ncohort),
                p5    |-> IF Len(ncohort) = 0 THEN Neutral
                          ELSE normalize_q(Quantile20(ncohort, LoQ), ncohort),
                p95   |-> IF Len(ncohort) = 0 THEN Neutral
                          ELSE normalize_q(Quantile20(ncohort, HiQ), ncohort)]
    /\ UNCHANGED <<players, game_details, idx, results, log, nvalue, ncohort, call, ret>>

NextNorm == Normalize

SpecNorm == InitNorm /\ [][NextNorm]_vars

----------------------------------------------------------------------------
(* Claims about normalize_score_robust, checked under SpecNorm *)

PercentilesEqual == Len(ncohort) > 0 /\ Quantile20(ncohort, LoQ) = Quantile20(ncohort, HiQ)

\* C5: normalize_score_robust returns exactly 5.0 whenever the cohort has fewer
\* than 3 values (the empty cohort included) and whenever the cohort's 5th and
\* 95th percentiles are equal, for any input value.
C5_NeutralOnSmallOrFlatCohort ==
    (pc = "normdone" /\ (Len(ncohort) < 3 \/ PercentilesEqual)) => nout.value = Neutral

\* a cohort of two different values has been normalized against, value outside it
C5_Witness ==
    /\ pc = "normdone"
    /\ Len(ncohort) = 2
    /\ ncohort[1] # ncohort[2]
    /\ nvalue < ncohort[1] /\ nvalue < ncohort[2]
    /\ nout.value = Neutral

\* C6: for a cohort of at least 3 values the result lies in [0,10] for every
\* input value, also one below the 5th or above the 95th percentile.
C6_NormalizedInRange ==
    (pc = "normdone" /\ Len(ncohort) >= 3) => (nout.value >= 0 /\ nout.value <= 100)

\* a value above the 95th percentile of a spread cohort has been clipped to 10
C6_Witness ==
    /\ pc = "normdone"
    /\ Len(ncohort) >= 3
    /\ ~PercentilesEqual
    /\ QDen * nvalue > Quantile20(ncohort, HiQ)
    /\ nout.value = 100

\* C7 as stated: for ANY cohort of at least 3 values the 5th percentile maps to
\* 0 and the 95th percentile maps to 10.
C7_Original ==
    (pc = "normdone" /\ Len(ncohort) >= 3) => (nout.p5 = 0 /\ nout.p95 = 100)

\* C7 amended: for a cohort of at least 3 values whose 5th and 95th percentiles
\* differ, the 5th percentile maps to 0 and the 95th to 10; when the two
\* percentiles are equal both map to the neutral 5.0.
C7_PercentilesMapToEnds ==
    (pc = "normdone" /\ Len(ncohort) >= 3) =>
        IF PercentilesEqual THEN nout.p5 = Neutral /\ nout.p95 = Neutral
        ELSE nout.p5 = 0 /\ nout.p95 = 100

\* a spread cohort of 3 or more values whose percentiles are not cohort members
C7_Witness ==
    /\ pc = "normdone"
    /\ Len(ncohort) >= 3
    /\ ~PercentilesEqual
    /\ Quantile20(ncohort, LoQ) % QDen # 0
    /\ nout.p5 = 0 /\ nout.p95 = 100

----------------------------------------------------------------------------
(* The weight configuration: the module is imported, then a player is scored *)

\* sum of one weight vector, hundredths
TableSum(weights) == SumSet(DOMAIN weights, weights)

\* STARTER_WEIGHTS as configured, and every copy of it with one weight
\* edited by 0.05 up or down
StarterConfigs ==
    {STARTER_WEIGHTS} \cup
    UNION { { [STARTER_WEIGHTS EXCEPT ![pos] = [@ EXCEPT ![key] = @ + d]] :
                key \in DOMAIN STARTER_WEIGHTS[pos], d \in {-5, 5} } :
            pos \in DOMAIN STARTER_WEIGHTS }

\* one player of every configured position
ConfigPlayers ==
    {PlayerRecord(1, pos, "T1", "ACTIVE", LineStrong, HomeContext) : pos \in DOMAIN STARTER_WEIGHTS}

InitConfig ==
    /\ players = <<>>
    /\ game_details = NoGameDetails
    /\ idx = 1
    /\ results = <<>>
    /\ log = <<>>
    /\ pc = "import"
    /\ nvalue = 0
    /\ ncohort = <<>>
    /\ nout = NoOut
    /\ call \in {[fn |-> "analyze_player", weights |-> w, player |-> p] :
                    w \in StarterConfigs, p \in ConfigPlayers}
    /\ ret = NoRet

\* import of the module: the dict literals are bound to STARTER_WEIGHTS,
\* WAIVER_WEIGHTS and ROS_WEIGHTS; no statement inspects them
LoadConfig ==
    /\ pc = "import"
    /\ pc' = "loaded"
    /\ UNCHANGED <<players, game_details, idx, results, log, nvalue, ncohort, nout, call, ret>>

\* the starter score of analyze_player, before scaling, with the loaded table; thousandths
ScoreWithConfig ==
    /\ pc = "loaded"
    /\ pc' = "scored"
    /\ ret' = [fn |-> "analyze_player",
               value |-> apply_injury_penalty(
                   StarterBase(ComponentsOf(call.player, <<call.player>>, game_details),
                               StarterWeightsIn(call.weights, call.player.pos)),
                   InjOrActive(call.player), 1000)]
    /\ UNCHANGED <<players, game_details, idx, results, log, nvalue, ncohort, nout, call>>

NextConfig == LoadConfig \/ ScoreWithConfig

SpecConfig == InitConfig /\ [][NextConfig]_vars

\* C11: a weight table whose weights do not sum to 1.0 is detected at load
\* time and the run fails before any player is scored; that is, a player is
\* scored only with tables that each sum to 1.0.
C11_BadWeightsFailFast ==
    pc = "scored" => \A pos \in DOMAIN call.weights : TableSum(call.weights[pos]) = 100

\* C12: the weights of every configured table sum to exactly 1.0: the six
\* starter vectors (QB, RB, WR, TE, D/ST, K), the waiver vector and the
\* rest-of-season vector (the tables in force while analyze_players runs).
C12_TablesSumToOne ==
    pc \in {"loop", "done"} =>
        /\ DOMAIN STARTER_WEIGHTS = {"QB", "RB", "WR", "TE", "D/ST", "K"}
        /\ \A pos \in DOMAIN STARTER_WEIGHTS : TableSum(STARTER_WEIGHTS[pos]) = 100
        /\ TableSum(WAIVER_WEIGHTS) = 100
        /\ TableSum(ROS_WEIGHTS) = 100

\* a kicker (the one vector of four weights) has been scored with the tables
C12_Witness ==
    /\ pc = "done"
    /\ \E id \in DOMAIN results :
          /\ results[id].position = "K"
          /\ DOMAIN StarterWeightsOf("K") \subseteq DOMAIN results[id].components

----------------------------------------------------------------------------
(* A call of calculate_ewma on its own *)

\* longest sequence of games passed
MaxGames == 4

\* game scores, cp: a negative week, a hundredth of a point, ten points
EwmaGames == {-300, 1, 1000}

\* weight lists, tenths: the default and two shorter ones
EwmaWeightLists == {EWMA_WEIGHTS, <<6, 4>>, <<10>>}

InitEwma ==
    /\ players = <<>>
    /\ game_details = NoGameDetails
    /\ idx = 1
    /\ results = <<>>
    /\ log = <<>>
    /\ pc = "ewma"
    /\ nvalue = 0
    /\ ncohort = <<>>
    /\ nout = NoOut
    /\ call \in {[fn |-> "calculate_ewma", last_n |-> l, weights |-> w] :
                    l \in SeqsUpTo(EwmaGames, MaxGames), w \in EwmaWeightLists}
    /\ ret = NoRet

\* calculate_ewma(last_n, weights)
Ewma ==
    /\ pc = "ewma"
    /\ pc' = "ewmadone"
    /\ \E r \in EwmaRounded(EwmaSum(call.last_n, call.weights)) :
          ret' = [fn |-> "calculate_ewma", value |-> r]
    /\ UNCHANGED <<players, game_details, idx, results, log, nvalue, ncohort, nout, call>>

NextEwma == Ewma

SpecEwma == InitEwma /\ [][NextEwma]_vars

\* the sum of last_n[i] * weights[i] over the first min(len(last_n),
\* len(weights)) games, thousandths
StatedEwmaSum ==
    LET m == Min(Len(call.last_n), Len(call.weights))
    IN  SumTo([i \in 1..m |-> call.last_n[i] * call.weights[i]], m)

\* C20 as stated: calculate_ewma RETURNS that sum.
C20_Original ==
    pc = "ewmadone" => 10 * ret.value = StatedEwmaSum

\* C20 amended: calculate_ewma returns the sum of last_n[i] * weights[i] over
\* the first min(len(last_n), len(weights)) games, rounded to 2 decimals, with
\* no renormalization of the weights when fewer games than weights are supplied
\* and with games beyond len(weights) ignored; it returns 0 for an empty
\* sequence, and ewma([10], [0.5, 0.3, 0.2]) is 5.0.
C20_EwmaIsRoundedWeightedSum ==
    pc = "ewmadone" =>
        /\ 10 * ret.value - 5 <= StatedEwmaSum
        /\ StatedEwmaSum <= 10 * ret.value + 5
        /\ Len(call.last_n) = 0 => ret.value = 0
        /\ (call.last_n = <<1000>> /\ call.weights = <<5, 3, 2>>) => ret.value = 500

\* ewma([10], [0.5, 0.3, 0.2]) has returned 5.0
C20_Witness ==
    /\ pc = "ewmadone"
    /\ call.last_n = <<1000>>
    /\ call.weights = <<5, 3, 2>>
    /\ ret.value = 500

----------------------------------------------------------------------------
(* A call of calculate_matchup_score_continuous on its own *)

\* implied points of the opponent in the game context, cp, around both pairs
\* of bounds (14 and 28, 17 and 27)
MatchupImplied == {0, 1300, 1400, 1450, 1700, 1750, 2100, 2200, 2650, 2700, 2750, 2800, 3500}

MatchupPositions == {"QB", "K", "D/ST"}

MatchupOpponents == {Absent, "", "BYE", "T2"}

\* the game context with one entry, for T2 (none when implied = NoEntry)
ContextFor(implied) == [t \in TeamCodes |-> IF t = "T2" THEN implied ELSE NoEntry]

InitMatchup ==
    /\ players = <<>>
    /\ game_details = NoGameDetails
    /\ idx = 1
    /\ results = <<>>
    /\ log = <<>>
    /\ pc = "matchup"
    /\ nvalue = 0
    /\ ncohort = <<>>
    /\ nout = NoOut
    /\ call \in {[fn |-> "calculate_matchup_score_continuous",
                  player |-> [pos |-> pos, opp |-> opp], implied |-> v] :
                    pos \in MatchupPositions, opp \in MatchupOpponents,
                    v \in MatchupImplied \cup {NoEntry}}
    /\ ret = NoRet

\* calculate_matchup_score_continuous(player, game_details)
Matchup ==
    /\ pc = "matchup"
    /\ pc' = "matchupdone"
    /\ ret' = [fn |-> "calculate_matchup_score_continuous",
               value |-> calculate_matchup_score_continuous(call.player, ContextFor(call.implied))]
    /\ UNCHANGED <<players, game_details, idx, results, log, nvalue, ncohort, nout, call>>

NextMatchup == Matchup

SpecMatchup == InitMatchup /\ [][NextMatchup]_vars

\* the score the same player gets against an opponent implied at v
MatchupAt(v) == calculate_matchup_score_continuous(call.player, ContextFor(v))

\* C21: calculate_matchup_score_continuous returns a value in [0,10]; 5.0
\* whenever the opponent is missing or 'BYE'; for offensive positions it is
\* non-decreasing in the opponent's implied points (0 at or below 17, 10 at or
\* above 27), for D/ST non-increasing (10 at or below 14, 0 at or above 28).
C21_MatchupRangeAndDirection ==
    pc = "matchupdone" =>
        /\ ret.value >= 0 /\ ret.value <= 100
        /\ call.player.opp \in {Absent, "", "BYE"} => ret.value = 50
        /\ (call.player.opp = "T2" /\ call.implied # NoEntry) =>
              IF call.player.pos = "D/ST"
              THEN /\ \A v \in MatchupImplied : v >= call.implied => MatchupAt(v) <= ret.value
                   /\ call.implied <= 1400 => ret.value = 100
                   /\ call.implied >= 2800 => ret.value = 0
              ELSE /\ \A v \in MatchupImplied : v >= call.implied => MatchupAt(v) >= ret.value
                   /\ call.implied <= 1700 => ret.value = 0
                   /\ call.implied >= 2700 => ret.value = 100

\* a D/ST against an opponent implied between the bounds scores strictly
\* between 0 and 10, and strictly less against a higher-implied opponent
C21_Witness ==
    /\ pc = "matchupdone"
    /\ call.player.pos = "D/ST"
    /\ call.player.opp = "T2"
    /\ call.implied = 2100
    /\ ret.value > 0 /\ ret.value < 100
    /\ MatchupAt(2650) < ret.value

\* C30: with an opponent code other than 'BYE' and no entry (or no implied
\* points) for it in the game context, the default implied total of 22 is used:
\* 5.0 for offensive positions, 4.3 for D/ST.
C30_DefaultImpliedTotal ==
    (pc = "matchupdone" /\ call.player.opp = "T2" /\ call.implied = NoEntry) =>
        /\ ret.value = MatchupAt(2200)
        /\ ret.value = IF call.player.pos = "D/ST" THEN 43 ELSE 50

\* a D/ST with an opponent that has no entry has scored 4.3
C30_Witness ==
    /\ pc = "matchupdone"
    /\ call.player.pos = "D/ST"
    /\ call.player.opp = "T2"
    /\ call.implied = NoEntry
    /\ ret.value = 43

----------------------------------------------------------------------------
(* A call of calculate_risk_index on its own *)

\* standard deviations (cp) and averages (cp) passed
RiskStdevs == {0, 10, 250, 300, 310, 500, 750, 760, 1000, 1500}

RiskAverages == {-100, 0, 1000}

InitRisk ==
    /\ players = <<>>
    /\ game_details = NoGameDetails
    /\ idx = 1
    /\ results = <<>>
    /\ log = <<>>
    /\ pc = "risk"
    /\ nvalue = 0
    /\ ncohort = <<>>
    /\ nout = NoOut
    /\ call \in {[fn |-> "calculate_risk_index", injury_status |-> s, stdev |-> sd, avg |-> a] :
                    s \in InjuryStatuses \ {Absent}, sd \in RiskStdevs, a \in RiskAverages}
    /\ ret = NoRet

\* calculate_risk_index(injury_status, stdev, avg)
Risk ==
    /\ pc = "risk"
    /\ pc' = "riskdone"
    /\ ret' = [fn |-> "calculate_risk_index",
               value |-> calculate_risk_index(call.injury_status, call.stdev, call.avg)]
    /\ UNCHANGED <<players, game_details, idx, results, log, nvalue, ncohort, nout, call>>

NextRisk == Risk

SpecRisk == InitRisk /\ [][NextRisk]_vars

\* C22: the reported category follows the thresholds on the reported risk
\* index: LOW iff risk_index <= 3, MEDIUM iff 3 < risk_index <= 6, HIGH iff
\* risk_index > 6, with use-case Core Starter, Flex and Bench/Stash.
C22_CategoryFollowsReportedIndex ==
    pc = "riskdone" =>
        LET r == ret.value
        IN  /\ r.risk_category \in {"LOW", "MEDIUM", "HIGH"}
            /\ r.risk_category = "LOW" <=> r.risk_score <= 30
            /\ r.risk_category = "MEDIUM" <=> (30 < r.risk_score /\ r.risk_score <= 60)
            /\ r.risk_category = "HIGH" <=> r.risk_score > 60
            /\ r.use_case = CASE r.risk_category = "LOW" -> "Core Starter"
                              [] r.risk_category = "MEDIUM" -> "Flex"
                              [] r.risk_category = "HIGH" -> "Bench/Stash"

----------------------------------------------------------------------------
(* A call of calculate_trend_score on its own *)

\* game scores (cp) and baselines (cp) passed; up to three games
TrendGames == {-500, 800, 1000, 1300}

TrendBaselines == {-1000, 0, 1000}

InitTrend ==
    /\ players = <<>>
    /\ game_details = NoGameDetails
    /\ idx = 1
    /\ results = <<>>
    /\ log = <<>>
    /\ pc = "trend"
    /\ nvalue = 0
    /\ ncohort = <<>>
    /\ nout = NoOut
    /\ call \in {[fn |-> "calculate_trend_score", last_n |-> l, season_avg |-> a] :
                    l \in SeqsUpTo(TrendGames, Len(EWMA_WEIGHTS)), a \in TrendBaselines}
    /\ ret = NoRet

\* calculate_trend_score(last_n, season_avg)
Trend ==
    /\ pc = "trend"
    /\ pc' = "trenddone"
    /\ ret' = [fn |-> "calculate_trend_score",
               value |-> calculate_trend_score(call.last_n, call.season_avg)]
    /\ UNCHANGED <<players, game_details, idx, results, log, nvalue, ncohort, nout, call>>

NextTrend == Trend

SpecTrend == InitTrend /\ [][NextTrend]_vars

\* r >= a/10 for r = ewma(recent games) / baseline of the call, baseline # 0
TrendRatioGeq(a) ==
    IF call.season_avg > 0 THEN 10 * calculate_ewma(call.last_n) >= a * call.season_avg
    ELSE 10 * calculate_ewma(call.last_n) <= a * call.season_avg

\* C23: calculate_trend_score returns 5.0 when fewer than 2 games are supplied
\* or the baseline average is 0; otherwise 9 if r >= 1.3, 7 if 1.1 <= r < 1.3,
\* 5 if 0.9 <= r < 1.1, 4 if 0.8 <= r < 0.9, 3 if r < 0.8, for
\* r = ewma(recent games) / baseline.
C23_TrendStepFunction ==
    pc = "trenddone" =>
        IF Len(call.last_n) < 2 \/ call.season_avg = 0 THEN ret.value = 50
        ELSE /\ ret.value \in {30, 40, 50, 70, 90}
             /\ ret.value = 90 <=> TrendRatioGeq(13)
             /\ ret.value = 70 <=> (TrendRatioGeq(11) /\ ~TrendRatioGeq(13))
             /\ ret.value = 50 <=> (TrendRatioGeq(9) /\ ~TrendRatioGeq(11))
             /\ ret.value = 40 <=> (TrendRatioGeq(8) /\ ~TrendRatioGeq(9))
             /\ ret.value = 30 <=> ~TrendRatioGeq(8)

\* three games whose ewma is exactly 0.8 of the baseline have scored 4
C23_Witness ==
    /\ pc = "trenddone"
    /\ call.last_n = <<800, 800, 800>>
    /\ call.season_avg = 1000
    /\ ret.value = 40

----------------------------------------------------------------------------
(* A call of calculate_opportunity_score on its own *)

\* most records in the pool besides the player
MaxMates == 2

\* start% and own% of a record
Markets == {[start |-> 80, own |-> 90], [start |-> 10, own |-> 20]}

\* the player scored: a quarterback of T1
OppPlayers ==
    {[id |-> 1, pos |-> "QB", team |-> "T1", inj |-> inj] @@ m :
        inj \in {"ACTIVE", "OUT", "IR"}, m \in Markets}

\* the other records of the pool (one may repeat the player's id)
OppMates ==
    {[id |-> id, pos |-> pos, team |-> team, inj |-> inj] @@ m :
        id \in {1, 2}, pos \in {"QB", "RB"}, team \in {"T1", "T2"},
        inj \in {"ACTIVE", "OUT", "IR", "INJURY_RESERVE"}, m \in Markets}

InitOpp ==
    /\ players = <<>>
    /\ game_details = NoGameDetails
    /\ idx = 1
    /\ results = <<>>
    /\ log = <<>>
    /\ pc = "opportunity"
    /\ nvalue = 0
    /\ ncohort = <<>>
    /\ nout = NoOut
    /\ call \in {[fn |-> "calculate_opportunity_score", player |-> p, player_pool |-> <<p>> \o mates] :
                    p \in OppPlayers, mates \in SeqsUpTo(OppMates, MaxMates)}
    /\ ret = NoRet

\* calculate_opportunity_score(player, player_pool)
Opportunity ==
    /\ pc = "opportunity"
    /\ pc' = "opportunitydone"
    /\ ret' = [fn |-> "calculate_opportunity_score",
               value |-> calculate_opportunity_score(call.player, call.player_pool)]
    /\ UNCHANGED <<players, game_details, idx, results, log, nvalue, ncohort, nout, call>>

NextOpp == Opportunity

SpecOpp == InitOpp /\ [][NextOpp]_vars

\* some record of the pool with another id, on the player's team and at the
\* player's position, is OUT, IR or INJURY_RESERVE
VacatedRole ==
    \E k \in 1..Len(call.player_pool) :
        LET mate == call.player_pool[k]
        IN  /\ mate.id # call.player.id
            /\ mate.team = call.player.team
            /\ mate.pos = call.player.pos
            /\ mate.inj \in {"OUT", "IR", "INJURY_RESERVE"}

\* C24: calculate_opportunity_score equals min(10, 0.6 * normalized start% +
\* 0.4 * normalized own% + bonus), both normalized within the same-position
\* cohort; bonus is a flat 2.0 exactly when some other player (different id) on
\* the same team and at the same position is OUT, IR or INJURY_RESERVE, else 0;
\* the player's own status never earns the bonus.
C24_OpportunityBlendAndBonus ==
    pc = "opportunitydone" =>
        LET cohort == SelectSeq(call.player_pool, LAMBDA p : p.pos = call.player.pos)
            start_n == normalize_score_robust(call.player.start, FieldOf(cohort, "start"))
            own_n == normalize_score_robust(call.player.own, FieldOf(cohort, "own"))
        IN  ret.value = Min(1000, 6 * start_n + 4 * own_n + (IF VacatedRole THEN 200 ELSE 0))

\* an OUT player among three quarterbacks, none of the others injured, has the
\* lowest start% and own% of the three: score 0, no bonus
C24_Witness ==
    /\ pc = "opportunitydone"
    /\ call.player.inj = "OUT"
    /\ Len(SelectSeq(call.player_pool, LAMBDA p : p.pos = "QB")) = 3
    /\ ~VacatedRole
    /\ ret.value = 0

----------------------------------------------------------------------------
(* main: the command line *)

\* most pieces in a file name
MaxName == 3

\* a file name is a sequence of pieces; '.json' and '.JSON' occur as whole pieces
NamePieces == {"week9", ".json", ".JSON", ".txt"}

RECURSIVE Replace(_, _, _)
\* str.replace(old, new): every piece equal to old gives way to the pieces of new
Replace(name, old, new) ==
    IF Len(name) = 0 THEN <<>>
    ELSE (IF Head(name) = old THEN new ELSE <<Head(name)>>) \o Replace(Tail(name), old, new)

\* output_file = filename.replace('.json', '_player_scores.json')
\*                       .replace('.JSON', '_player_scores.json')
OutputFile(filename) ==
    Replace(Replace(filename, ".json", <<"_player_scores", ".json">>),
            ".JSON", <<"_player_scores", ".json">>)

\* call.argv is sys.argv[1:]
InitCli ==
    /\ players = <<>>
    /\ game_details = NoGameDetails
    /\ idx = 1
    /\ results = <<>>
    /\ log = <<>>
    /\ pc = "main"
    /\ nvalue = 0
    /\ ncohort = <<>>
    /\ nout = NoOut
    /\ call \in {[fn |-> "main", argv |-> argv] :
                    argv \in {<<>>} \cup {<<name>> : name \in SeqsUpTo(NamePieces, MaxName) \ {<<>>}}}
    /\ ret = NoRet

\* if len(sys.argv) < 2: print usage; sys.exit(1)
Usage ==
    /\ pc = "main"
    /\ Len(call.argv) < 1
    /\ pc' = "exited"
    /\ ret' = [fn |-> "main", status |-> 1, printed |-> "Usage", written |-> <<>>]
    /\ UNCHANGED <<players, game_details, idx, results, log, nvalue, ncohort, nout, call>>

\* the file is loaded and analysed, and the scores are written to output_file
WriteScores ==
    /\ pc = "main"
    /\ Len(call.argv) >= 1
    /\ pc' = "exited"
    /\ ret' = [fn |-> "main", status |-> 0, printed |-> "Saved",
               written |-> OutputFile(call.argv[1])]
    /\ UNCHANGED <<players, game_details, idx, results, log, nvalue, ncohort, nout, call>>

NextCli == Usage \/ WriteScores

SpecCli == InitCli /\ [][NextCli]_vars

\* C25: without an input path the CLI exits with a usage message and non-zero
\* status; otherwise it writes the scores to a path that differs from the
\* input path for every input file name, so the input file is never
\* overwritten.
C25_OutputNeverInput ==
    pc = "exited" =>
        IF Len(call.argv) = 0
        THEN ret.status # 0 /\ ret.printed = "Usage" /\ ret.written = <<>>
        ELSE ret.written # call.argv[1]

----------------------------------------------------------------------------
(* A call of analyze_players on its own: the whole batch as one function *)

\* the dict analyze_players returns: every id that is truthy and whose record
\* is analysed without an exception, mapped to the analysis of the last
\* record listed with that id
analyze_players(pool, gd) ==
    LET ok == {k \in 1..Len(pool) : pool[k].id # 0 /\ ~AnalysisRaises(pool[k], pool)}
    IN  [id \in {pool[k].id : k \in ok} |->
            LET last == CHOOSE k \in ok : pool[k].id = id /\ \A j \in ok : pool[j].id = id => j <= k
            IN  analyze_player(pool[last], pool, gd)]

MaxListed == 3

\* three quarterbacks of one team with different season lines, one of them
\* OUT; a record repeating id 2; a record without id; a record without pos
OrderRecords ==
    { PlayerRecord(1, "QB", "T1", "ACTIVE", LineStrong, HomeContext),
      PlayerRecord(2, "QB", "T1", "OUT", LineOneGame, HomeContext),
      PlayerRecord(3, "QB", "T1", "QUESTIONABLE", LineTwoGames, HomeContext),
      PlayerRecord(2, "QB", "T2", "ACTIVE", LineTwoSteady, HomeContext),
      PlayerRecord(0, "QB", "T1", "IR", LineNegative, HomeContext),
      PlayerRecord(4, Absent, "T1", "ACTIVE", LineStrong, HomeContext) }

InitOrder ==
    /\ players = <<>>
    /\ game_details = NoGameDetails
    /\ idx = 1
    /\ results = <<>>
    /\ log = <<>>
    /\ pc = "call"
    /\ nvalue = 0
    /\ ncohort = <<>>
    /\ nout = NoOut
    /\ call \in {[fn |-> "analyze_players", players |-> pool, game_details |-> gd] :
                    pool \in SeqsUpTo(OrderRecords, MaxListed) \ {<<>>},
                    gd \in {NoGameDetails, [t \in TeamCodes |-> IF t = "T2" THEN 2500 ELSE NoEntry]}}
    /\ ret = NoRet

AnalyzePlayers ==
    /\ pc = "call"
    /\ call.fn = "analyze_players"
    /\ ret' = [fn |-> "analyze_players", results |-> analyze_players(call.players, call.game_details)]
    /\ pc' = "returned"
    /\ UNCHANGED <<players, game_details, idx, results, log, nvalue, ncohort, nout, call>>

NextOrder == AnalyzePlayers

SpecOrder == InitOrder /\ [][NextOrder]_vars

\* the pool listed in the order f gives
Reordered(pool, f) == [k \in 1..Len(pool) |-> pool[f[k]]]

\* no two records of the pool have the same id
DistinctIds(pool) ==
    \A j, k \in 1..Len(pool) : j # k => pool[j].id # pool[k].id

\* C27: for a pool whose records have distinct ids, every permutation of the
\* pool (the order in which the players are listed and processed) yields the
\* same analysis for every player id.
C27_OrderIndependent ==
    (pc = "returned" /\ DistinctIds(call.players)) =>
        \A f \in Permutations(1..Len(call.players)) :
            analyze_players(Reordered(call.players, f), call.game_details) = ret.results

\* three records with distinct ids and one position have been analysed, the
\* cohort normalisation is not neutral and one of them earned the vacancy
\* bonus of an OUT teammate
C27_Witness ==
    /\ pc = "returned"
    /\ DistinctIds(call.players)
    /\ Len(call.players) = 3
    /\ DOMAIN ret.results = {1, 2, 3}
    /\ \E id \in DOMAIN ret.results : ret.results[id].components.avg # 50
    /\ \E k, m \in 1..3 :
          /\ k # m
          /\ call.players[m].inj = "OUT"
          /\ call.players[m].team = call.players[k].team
          /\ call.players[m].pos = call.players[k].pos
          /\ ret.results[call.players[k].id].components.opportunity >= 200

============================================================================
